---- MODULE Spec2Model ----
(***************************************************************************)
(* VideoConverter (src/main.py): a batch front end for ffmpeg.  One run of *)
(* main() is modelled as a sequential state machine.  Strings are          *)
(* sequences of one-character strings, so that the path and text functions *)
(* of the program (splitext, relpath, join, dirname, strip, lower, int,    *)
(* str.split, f-string formatting) are computed character by character.    *)
(* The Japanese folder names and the sentinel of get_ffmpeg_version are    *)
(* written with ASCII stand-ins of the same shape.                         *)
(***************************************************************************)
EXTENDS Integers, Sequences, FiniteSets, TLC

VARIABLES
    mode,           \* args.mode: "convert" | "extract"
    bundled,        \* os.path.isfile(BIN_FFMPEG_PATH)
    inputTree,      \* files below INPUT_FOLDER: records [dir, stem, ext]
    inRootExists,   \* INPUT_FOLDER exists
    outDirs,        \* directories of the output area (path strings)
    outFiles,       \* files of the output area (path strings)
    out0,           \* the output area before the run: [dirs, files]
    pc,             \* position of main()
    ffmpeg_path,    \* main: ffmpeg_path
    input_files,    \* main: input_files
    target_height,  \* process_convert_resolution: target_height
    video_codec,    \* process_convert_resolution: video_codec
    i,              \* loop index of the batch loop (0-based, as enumerate)
    output_path,    \* loop: output_path
    answer,         \* the last line read from stdin by input()
    prompted,       \* input() has been called
    result,         \* outcome of the last subprocess.run
    printed,        \* the last line written to stdout
    exitCode,       \* process exit code once pc = "done"
    exc,            \* the uncaught exception that ended the run, or "none"
    log             \* history of resets, directory creations and encoder runs

vars == <<mode, bundled, inputTree, inRootExists, outDirs, outFiles, out0, pc,
          ffmpeg_path, input_files, target_height, video_codec, i,
          output_path, answer, prompted, result, printed, exitCode, exc, log>>

(***************************************************************************)
(* Bounds of the model.                                                    *)
(***************************************************************************)
MaxFiles == 3

(***************************************************************************)
(* Characters and strings.                                                 *)
(***************************************************************************)
SEP == "/"
EXTSEP == "."

Max(S) == CHOOSE x \in S : \A y \in S : y <= x
Min(S) == CHOOSE x \in S : \A y \in S : x <= y

UpperAZ == <<"A","B","C","D","E","F","G","H","I","J","K","L","M",
             "N","O","P","Q","R","S","T","U","V","W","X","Y","Z">>
LowerAZ == <<"a","b","c","d","e","f","g","h","i","j","k","l","m",
             "n","o","p","q","r","s","t","u","v","w","x","y","z">>
Digits == <<"0","1","2","3","4","5","6","7","8","9">>
Whitespace == {" ", "\t", "\n"}

\* str.lower() on one character
LowerChar(c) ==
    IF \E k \in 1..26 : UpperAZ[k] = c
    THEN LowerAZ[CHOOSE k \in 1..26 : UpperAZ[k] = c]
    ELSE c

\* str.lower()
lower(s) == [k \in 1..Len(s) |-> LowerChar(s[k])]

\* str.strip()
strip(s) ==
    LET keep == {k \in 1..Len(s) : s[k] \notin Whitespace}
    IN  IF keep = {} THEN <<>> ELSE SubSeq(s, Min(keep), Max(keep))

\* str.rfind(c) for a single character, 1-based; 0 when absent
rfind(s, c) ==
    LET at == {k \in 1..Len(s) : s[k] = c}
    IN  IF at = {} THEN 0 ELSE Max(at)

\* str.find(c) for a single character, 1-based; 0 when absent
find(s, c) ==
    LET at == {k \in 1..Len(s) : s[k] = c}
    IN  IF at = {} THEN 0 ELSE Min(at)

\* s.split('\n')[0]
FirstLine(s) ==
    IF find(s, "\n") = 0 THEN s ELSE SubSeq(s, 1, find(s, "\n") - 1)

DigitValue(c) == (CHOOSE k \in 1..10 : Digits[k] = c) - 1
IsDigit(c) == \E k \in 1..10 : Digits[k] = c

RECURSIVE DigitsValue(_)
DigitsValue(s) ==
    IF s = <<>> THEN 0
    ELSE 10 * DigitsValue(SubSeq(s, 1, Len(s) - 1)) + DigitValue(s[Len(s)])

\* int(s): surrounding whitespace dropped, an optional sign, then digits;
\* anything else raises ValueError
int(s) ==
    LET t == strip(s)
        signed == t # <<>> /\ t[1] \in {"+", "-"}
        body == IF signed THEN Tail(t) ELSE t
    IN  IF body # <<>> /\ \A k \in 1..Len(body) : IsDigit(body[k])
        THEN [ok |-> TRUE,
              val |-> IF signed /\ t[1] = "-" THEN 0 - DigitsValue(body)
                      ELSE DigitsValue(body)]
        ELSE [ok |-> FALSE, val |-> 0]

RECURSIVE NatToStr(_)
NatToStr(n) ==
    IF n < 10 THEN <<Digits[n + 1]>>
    ELSE NatToStr(n \div 10) \o <<Digits[(n % 10) + 1]>>

\* f"{n}" for an int
IntToStr(n) == IF n < 0 THEN <<"-">> \o NatToStr(0 - n) ELSE NatToStr(n)

(***************************************************************************)
(* os.path                                                                 *)
(***************************************************************************)
\* os.path.splitext
splitext(p) ==
    LET sepIndex == rfind(p, SEP)
        dotIndex == rfind(p, EXTSEP)
    IN  IF dotIndex > sepIndex
           /\ \E k \in (sepIndex + 1)..(dotIndex - 1) : p[k] # EXTSEP
        THEN <<SubSeq(p, 1, dotIndex - 1), SubSeq(p, dotIndex, Len(p))>>
        ELSE <<p, <<>>>>

\* str.rstrip(sep)
rstripSep(s) ==
    LET keep == {k \in 1..Len(s) : s[k] # SEP}
    IN  IF keep = {} THEN <<>> ELSE SubSeq(s, 1, Max(keep))

\* os.path.split
split(p) ==
    LET k == rfind(p, SEP)
        head == SubSeq(p, 1, k)
        tail == SubSeq(p, k + 1, Len(p))
    IN  <<IF head # <<>> /\ rstripSep(head) # <<>> THEN rstripSep(head) ELSE head,
          tail>>

\* os.path.dirname
dirname(p) == split(p)[1]

\* os.path.join of two components
join(a, b) ==
    IF b # <<>> /\ b[1] = SEP THEN b
    ELSE IF a = <<>> \/ a[Len(a)] = SEP THEN a \o b
    ELSE a \o <<SEP>> \o b

\* p.split(sep) without the empty components
RECURSIVE Segments(_)
Segments(p) ==
    IF p = <<>> THEN <<>>
    ELSE LET k == find(p, SEP)
         IN  IF k = 0 THEN <<p>>
             ELSE IF k = 1 THEN Segments(Tail(p))
             ELSE <<SubSeq(p, 1, k - 1)>> \o Segments(SubSeq(p, k + 1, Len(p)))

RECURSIVE JoinAll(_)
JoinAll(segs) ==
    IF segs = <<>> THEN <<>>
    ELSE IF Len(segs) = 1 THEN segs[1]
    ELSE join(JoinAll(SubSeq(segs, 1, Len(segs) - 1)), segs[Len(segs)])

\* length of the common prefix of two segment lists
CommonPrefix(a, b) ==
    LET same == {k \in 0..Min({Len(a), Len(b)}) : \A j \in 1..k : a[j] = b[j]}
    IN  Max(same)

\* os.path.relpath of two paths relative to the working directory
relpath(path, start) ==
    LET start_list == Segments(start)
        path_list == Segments(path)
        c == CommonPrefix(start_list, path_list)
        rel_list == [k \in 1..(Len(start_list) - c) |-> <<".", ".">>]
                    \o SubSeq(path_list, c + 1, Len(path_list))
    IN  IF rel_list = <<>> THEN <<".">> ELSE JoinAll(rel_list)

(***************************************************************************)
(* Program constants.                                                      *)
(***************************************************************************)
BIN_FFMPEG_PATH == join(<<"b","i","n">>, <<"f","f","m","p","e","g",".","e","x","e">>)
SYSTEM_FFMPEG_PATH == <<"f","f","m","p","e","g",".","e","x","e">>
INPUT_FOLDER == <<"0","1",".","i","n">>
OUTPUT_FOLDER == <<"0","2",".","o","u","t">>
SUPPORTED_FORMATS ==
    { <<".","m","p","4">>, <<".","a","v","i">>, <<".","m","k","v">>,
      <<".","f","l","v">>, <<".","m","o","v">>, <<".","w","m","v">> }

\* the value find_ffmpeg returns when no encoder is found
NoPath == <<>>
\* the sentinel get_ffmpeg_version returns
UnknownVersion == <<"fu", "mei">>

H264_NVENC == <<"h","2","6","4","_","n","v","e","n","c">>
LIBX264 == <<"l","i","b","x","2","6","4">>
AAC == <<"a","a","c">>
MP3 == <<"m","p","3">>
BITRATE_192K == <<"1","9","2","k">>

(***************************************************************************)
(* subprocess.run                                                          *)
(***************************************************************************)
\* no subprocess has been run yet
NoResult == [called |-> FALSE, raised |-> FALSE, returncode |-> 0, stdout |-> <<>>]
\* subprocess.run raised (the command could not be started)
Raised == [called |-> TRUE, raised |-> TRUE, returncode |-> 0, stdout |-> <<>>]
\* subprocess.run returned a CompletedProcess
Completed(rc, out) == [called |-> TRUE, raised |-> FALSE, returncode |-> rc, stdout |-> out]

\* outcomes of [SYSTEM_FFMPEG_PATH, "-version"] in find_ffmpeg
LookupOutcomes == {Raised, Completed(1, <<>>), Completed(0, <<"v","6","\n","b">>)}

\* outcomes of [ffmpeg_path, "-version"] in get_ffmpeg_version
VersionOutcomes ==
    { Raised,
      Completed(1, <<"e","r","r">>),
      Completed(0, <<>>),
      Completed(0, <<"v","6">>),
      Completed(0, <<"v","6","\n","b","\n">>) }

\* outcomes of [ffmpeg_path, "-encoders"] in is_nvenc_available
EncodersOutcomes ==
    { Raised,
      Completed(0, <<" ">> \o LIBX264 \o <<"\n">>),
      Completed(0, <<" ">> \o LIBX264 \o <<"\n", " ">> \o H264_NVENC \o <<"\n">>) }

\* sub in s
contains(s, sub) ==
    \E k \in 1..(Len(s) - Len(sub) + 1) : SubSeq(s, k, k + Len(sub) - 1) = sub

\* what find_ffmpeg does: [exc, path, result]
find_ffmpeg(isfile, run) ==
    IF isfile
    THEN [exc |-> "none", path |-> BIN_FFMPEG_PATH, result |-> NoResult]
    ELSE IF run.raised
    THEN [exc |-> "FileNotFoundError", path |-> NoPath, result |-> run]
    ELSE IF run.returncode = 0
    THEN [exc |-> "none", path |-> SYSTEM_FFMPEG_PATH, result |-> run]
    ELSE [exc |-> "none", path |-> NoPath, result |-> run]

\* get_ffmpeg_version without the returncode test
get_ffmpeg_version_anyrc(run) ==
    IF ~run.raised THEN FirstLine(run.stdout) ELSE UnknownVersion

\* get_ffmpeg_version, given the outcome of its subprocess.run
get_ffmpeg_version(run) ==
    IF ~run.raised /\ run.returncode = 0
    THEN FirstLine(run.stdout)
    ELSE UnknownVersion

\* is_nvenc_available, given the outcome of its subprocess.run
is_nvenc_available(run) ==
    IF run.raised THEN FALSE ELSE contains(run.stdout, H264_NVENC)

(***************************************************************************)
(* The output area as a file system: [dirs, files, err].                   *)
(***************************************************************************)
exists(fs, p) == p \in fs.dirs \/ p \in fs.files
isdir(fs, p) == p \in fs.dirs

IsUnder(p, top) ==
    \/ p = top
    \/ /\ Len(p) > Len(top) + 1
       /\ SubSeq(p, 1, Len(top) + 1) = top \o <<SEP>>

\* os.mkdir
mkdir(fs, name) ==
    LET head == dirname(name)
    IN  IF exists(fs, name) THEN [fs EXCEPT !.err = "FileExistsError"]
        ELSE IF head # <<>> /\ head \in fs.files
        THEN [fs EXCEPT !.err = "NotADirectoryError"]
        ELSE IF head # <<>> /\ head \notin fs.dirs
        THEN [fs EXCEPT !.err = "FileNotFoundError"]
        ELSE [fs EXCEPT !.dirs = @ \cup {name}, !.err = "none"]

\* os.makedirs
RECURSIVE makedirs(_, _, _)
makedirs(fs, name, exist_ok) ==
    LET sp == split(name)
        ht == IF sp[2] = <<>> THEN split(sp[1]) ELSE sp
        head == ht[1]
        tail == ht[2]
        up == IF head # <<>> /\ tail # <<>> /\ ~exists(fs, head)
              THEN makedirs(fs, head, exist_ok)
              ELSE [fs EXCEPT !.err = "none"]
    IN  IF up.err \notin {"none", "FileExistsError"} THEN up
        ELSE LET made == mkdir([up EXCEPT !.err = "none"], name)
             IN  IF made.err = "none" THEN made
                 ELSE IF exist_ok /\ isdir(up, name) THEN [up EXCEPT !.err = "none"]
                 ELSE made

\* shutil.rmtree
rmtree(fs, top) ==
    [fs EXCEPT !.dirs = {p \in @ : ~IsUnder(p, top)},
               !.files = {p \in @ : ~IsUnder(p, top)}]

\* clear_output_folder
clear_output_folder(fs) ==
    makedirs(IF exists(fs, OUTPUT_FOLDER) THEN rmtree(fs, OUTPUT_FOLDER) ELSE fs,
             OUTPUT_FOLDER, FALSE)

(***************************************************************************)
(* The input tree.  A file is [dir, stem, ext]: the directories between    *)
(* INPUT_FOLDER and the file, and the file name as stem \o ext.            *)
(***************************************************************************)
File(dir, stem, ext) == [dir |-> dir, stem |-> stem, ext |-> ext]
Name(f) == f.stem \o f.ext

MP4 == <<".","m","p","4">>
AVI == <<".","a","v","i">>

Catalog ==
    { File(<<>>, <<"c","1">>, MP4),
      File(<<>>, <<"c","1">>, AVI),
      File(<<<<"s">>>>, <<"c","2">>, <<".","M","K","V">>),
      File(<<<<"s">>>>, <<"c","1">>, AVI),
      File(<<<<"s">>, <<"v","1",".","0">>>>, <<"a",".","b">>, <<".","m","o","v">>),
      File(<<<<"c","1",".","m","p","3">>>>, <<"d">>, MP4),
      File(<<>>, <<"n">>, <<".","t","x","t">>),
      File(<<>>, <<".","m","p","4">>, <<>>) }

\* the order in which the directory listing returns names
ScanOrder ==
    << <<"c","1",".","m","p","4">>, <<"c","1",".","a","v","i">>,
       <<"c","2",".","M","K","V">>, <<"a",".","b",".","m","o","v">>,
       <<"d",".","m","p","4">>, <<"n",".","t","x","t">>, <<".","m","p","4">>,
       <<"s">>, <<"v","1",".","0">>, <<"c","1",".","m","p","3">> >>
Rank(name) == CHOOSE k \in 1..Len(ScanOrder) : ScanOrder[k] = name

RECURSIVE Listing(_, _)
Listing(names, rev) ==
    IF names = {} THEN <<>>
    ELSE LET x == CHOOSE x \in names : \A y \in names :
                     IF rev THEN Rank(y) <= Rank(x) ELSE Rank(x) <= Rank(y)
         IN  <<x>> \o Listing(names \ {x}, rev)

IsPrefix(a, b) == Len(a) <= Len(b) /\ SubSeq(b, 1, Len(a)) = a

\* os.walk(INPUT_FOLDER), top down: the (root, files) pairs in visiting order
RECURSIVE walk(_, _, _)
RECURSIVE walkEach(_, _, _, _)
walk(tree, dir, rev) ==
    LET files == Listing({Name(f) : f \in {g \in tree : g.dir = dir}}, rev)
        below == {g \in tree : Len(g.dir) > Len(dir) /\ IsPrefix(dir, g.dir)}
        dirs == Listing({g.dir[Len(dir) + 1] : g \in below}, rev)
    IN  <<[root |-> JoinAll(<<INPUT_FOLDER>> \o dir), files |-> files]>>
        \o walkEach(tree, dir, dirs, rev)
walkEach(tree, dir, dirs, rev) ==
    IF dirs = <<>> THEN <<>>
    ELSE walk(tree, Append(dir, Head(dirs)), rev)
         \o walkEach(tree, dir, Tail(dirs), rev)

RECURSIVE Matching(_, _)
Matching(root, files) ==
    IF files = <<>> THEN <<>>
    ELSE (IF lower(splitext(Head(files))[2]) \in SUPPORTED_FORMATS
          THEN <<join(root, Head(files))>> ELSE <<>>)
         \o Matching(root, Tail(files))

RECURSIVE Collect(_)
Collect(visits) ==
    IF visits = <<>> THEN <<>>
    ELSE Matching(Head(visits).root, Head(visits).files) \o Collect(Tail(visits))

\* get_input_files
get_input_files(tree, rev) == Collect(walk(tree, <<>>, rev))

\* get_output_path that forgets the extension of a converted file
get_output_path_noext(input_path, input_folder, output_folder, height, is_audio_only) ==
    LET relative_path == relpath(input_path, input_folder)
        base == splitext(relative_path)[1]
        output_relative_path ==
            IF is_audio_only THEN base \o <<".">> \o MP3
            ELSE base \o <<"_">> \o IntToStr(height) \o <<"p">>
    IN  join(output_folder, output_relative_path)

\* get_output_path that keeps the file name and drops the directories
get_output_path_flat(input_path, input_folder, output_folder, height, is_audio_only) ==
    LET relative_path == split(input_path)[2]
        base == splitext(relative_path)[1]
        ext == splitext(relative_path)[2]
        output_relative_path ==
            IF is_audio_only THEN base \o <<".">> \o MP3
            ELSE base \o <<"_">> \o IntToStr(height) \o <<"p">> \o ext
    IN  join(output_folder, output_relative_path)

\* get_output_path
get_output_path(input_path, input_folder, output_folder, height, is_audio_only) ==
    LET relative_path == relpath(input_path, input_folder)
        base == splitext(relative_path)[1]
        ext == splitext(relative_path)[2]
        output_relative_path ==
            IF is_audio_only THEN base \o <<".">> \o MP3
            ELSE base \o <<"_">> \o IntToStr(height) \o <<"p">> \o ext
    IN  join(output_folder, output_relative_path)

\* convert_video: the command it runs
convert_video(input_path, out_path, height, vcodec, acodec, ffmpeg) ==
    << ffmpeg, <<"-","y">>, <<"-","i">>, input_path,
       <<"-","v","f">>, <<"s","c","a","l","e","=","-","1",":">> \o IntToStr(height),
       <<"-","c",":","v">>, vcodec,
       <<"-","c",":","a">>, acodec >>
    \o (IF acodec = AAC
        THEN << <<"-","s","t","r","i","c","t">>,
                <<"e","x","p","e","r","i","m","e","n","t","a","l">> >>
        ELSE <<>>)
    \o <<out_path>>

\* extract_audio: the command it runs
extract_audio(input_path, out_path, acodec, bitrate, ffmpeg) ==
    << ffmpeg, <<"-","y">>, <<"-","i">>, input_path,
       <<"-","v","n">>,
       <<"-","c",":","a">>, acodec,
       <<"-","b",":","a">>, bitrate,
       out_path >>

(***************************************************************************)
(* Inputs of a run.                                                        *)
(***************************************************************************)
\* the output area before the run: absent, or holding an earlier run's output
OutputAreas ==
    { [dirs |-> {}, files |-> {}],
      [dirs |-> {OUTPUT_FOLDER, join(OUTPUT_FOLDER, <<"s">>)},
       files |-> {join(OUTPUT_FOLDER, <<"o","l","d",".","m","p","3">>),
                  join(join(OUTPUT_FOLDER, <<"s">>), <<"c","2",".","m","p","3">>)}] }

\* lines typed at the target-height prompt
HeightAnswers ==
    { <<"a","b","c">>, <<"-">>, <<>>, <<"4","8","0">>, <<"0">>, <<"-","5">>,
      <<" ","7"," ">> }

\* lines typed at the confirmation prompt
ConfirmAnswers ==
    { <<"y">>, <<"Y">>, <<" ","y"," ">>, <<"n">>, <<>>, <<"y","e","s">> }

Msg(m, text) == [msg |-> m, text |-> text]

FS == [dirs |-> outDirs, files |-> outFiles, err |-> "none"]

Init ==
    /\ mode \in {"convert", "extract"}
    /\ bundled \in BOOLEAN
    /\ inputTree \in {t \in SUBSET Catalog : Cardinality(t) <= MaxFiles}
    /\ inRootExists \in (IF inputTree = {} THEN BOOLEAN ELSE {TRUE})
    /\ out0 \in OutputAreas
    /\ outDirs = out0.dirs
    /\ outFiles = out0.files
    /\ pc = "find_ffmpeg"
    /\ ffmpeg_path = NoPath
    /\ input_files = <<>>
    /\ target_height = 0
    /\ video_codec = <<>>
    /\ i = 0
    /\ output_path = <<>>
    /\ answer = <<>>
    /\ prompted = FALSE
    /\ result = NoResult
    /\ printed = Msg("banner", <<>>)
    /\ exitCode = 0
    /\ exc = "none"
    /\ log = <<>>

(***************************************************************************)
(* main                                                                    *)
(***************************************************************************)
\* main: ffmpeg_path = find_ffmpeg(); exit 1 when it is None
FindFfmpeg ==
    /\ pc = "find_ffmpeg"
    /\ \E run \in LookupOutcomes :
         LET f == find_ffmpeg(bundled, run)
         IN  /\ result' = f.result
             /\ IF f.exc # "none"
                THEN /\ pc' = "done" /\ exitCode' = 1 /\ exc' = f.exc
                     /\ UNCHANGED <<ffmpeg_path, printed>>
                ELSE IF f.path = NoPath
                THEN /\ printed' = Msg("error_ffmpeg_not_found", <<>>)
                     /\ pc' = "done" /\ exitCode' = 1
                     /\ UNCHANGED <<ffmpeg_path, exc>>
                ELSE /\ ffmpeg_path' = f.path
                     /\ pc' = "version"
                     /\ UNCHANGED <<printed, exitCode, exc>>
    /\ UNCHANGED <<mode, bundled, inputTree, inRootExists, outDirs, outFiles, out0,
                   input_files, target_height, video_codec, i, output_path,
                   answer, prompted, log>>

\* main: print(get_ffmpeg_version(ffmpeg_path))
PrintVersion ==
    /\ pc = "version"
    /\ \E run \in VersionOutcomes :
         /\ result' = run
         /\ printed' = Msg("version", get_ffmpeg_version(run))
    /\ pc' = "makeroots"
    /\ UNCHANGED <<mode, bundled, inputTree, inRootExists, outDirs, outFiles, out0,
                   ffmpeg_path, input_files, target_height, video_codec, i,
                   output_path, answer, prompted, exitCode, exc, log>>

\* main: os.makedirs(INPUT_FOLDER, exist_ok=True); os.makedirs(OUTPUT_FOLDER, exist_ok=True)
MakeRoots ==
    /\ pc = "makeroots"
    /\ inRootExists' = TRUE
    /\ outDirs' = makedirs(FS, OUTPUT_FOLDER, TRUE).dirs
    /\ pc' = "discover"
    /\ UNCHANGED <<mode, bundled, inputTree, outFiles, out0, ffmpeg_path,
                   input_files, target_height, video_codec, i, output_path,
                   answer, prompted, result, printed, exitCode, exc, log>>

\* Discover without the early return on an empty list
DiscoverNoReturn ==
    /\ pc = "discover"
    /\ \E rev \in BOOLEAN : input_files' = get_input_files(inputTree, rev)
    /\ pc' = IF mode = "convert" THEN "c_height" ELSE "e_confirm"
    /\ UNCHANGED <<mode, bundled, inputTree, inRootExists, outDirs, outFiles, out0,
                   ffmpeg_path, target_height, video_codec, i, output_path,
                   answer, prompted, result, printed, exitCode, exc, log>>

\* main: input_files = get_input_files(); return when there is none; dispatch on mode
Discover ==
    /\ pc = "discover"
    /\ \E rev \in BOOLEAN : input_files' = get_input_files(inputTree, rev)
    /\ IF Len(input_files') = 0
       THEN /\ printed' = Msg("no_input_files", INPUT_FOLDER)
            /\ pc' = "done"
       ELSE /\ pc' = IF mode = "convert" THEN "c_height" ELSE "e_confirm"
            /\ UNCHANGED printed
    /\ UNCHANGED <<mode, bundled, inputTree, inRootExists, outDirs, outFiles, out0,
                   ffmpeg_path, target_height, video_codec, i, output_path,
                   answer, prompted, result, exitCode, exc, log>>

(***************************************************************************)
(* process_convert_resolution                                              *)
(***************************************************************************)
\* get_target_height: one turn of its loop
GetTargetHeight ==
    /\ pc = "c_height"
    /\ \E line \in HeightAnswers :
         /\ answer' = line
         /\ IF int(line).ok
            THEN /\ target_height' = int(line).val
                 /\ printed' = Msg("blank", <<>>)
                 /\ pc' = "c_nvenc"
            ELSE /\ printed' = Msg("enter_a_number", <<>>)
                 /\ UNCHANGED <<target_height, pc>>
    /\ prompted' = TRUE
    /\ UNCHANGED <<mode, bundled, inputTree, inRootExists, outDirs, outFiles, out0,
                   ffmpeg_path, input_files, video_codec, i, output_path,
                   result, exitCode, exc, log>>

\* video_codec from is_nvenc_available(ffmpeg_path)
ChooseVideoCodec ==
    /\ pc = "c_nvenc"
    /\ \E run \in EncodersOutcomes :
         /\ result' = run
         /\ IF is_nvenc_available(run)
            THEN video_codec' = H264_NVENC /\ printed' = Msg("using_gpu", <<>>)
            ELSE video_codec' = LIBX264 /\ UNCHANGED printed
    /\ pc' = "c_clear"
    /\ UNCHANGED <<mode, bundled, inputTree, inRootExists, outDirs, outFiles, out0,
                   ffmpeg_path, input_files, target_height, i, output_path,
                   answer, prompted, exitCode, exc, log>>

\* ConvertClear without the call of clear_output_folder
ConvertClearSkipped ==
    /\ pc = "c_clear"
    /\ printed' = Msg("start_convert", <<>>)
    /\ i' = 0
    /\ pc' = "c_loop"
    /\ UNCHANGED <<mode, bundled, inputTree, inRootExists, outDirs, outFiles, out0,
                   ffmpeg_path, input_files, target_height, video_codec,
                   output_path, answer, prompted, result, exitCode, exc, log>>

\* clear_output_folder() and the start of the batch loop
ConvertClear ==
    /\ pc = "c_clear"
    /\ outDirs' = clear_output_folder(FS).dirs
    /\ outFiles' = clear_output_folder(FS).files
    /\ log' = Append(log, [ev |-> "reset"])
    /\ printed' = Msg("start_convert", <<>>)
    /\ i' = 0
    /\ pc' = "c_loop"
    /\ UNCHANGED <<mode, bundled, inputTree, inRootExists, out0, ffmpeg_path,
                   input_files, target_height, video_codec, output_path,
                   answer, prompted, result, exitCode, exc>>

\* ConvertLoopBegin without os.makedirs
ConvertLoopBeginNoMakedirs ==
    /\ pc = "c_loop"
    /\ i < Len(input_files)
    /\ output_path' = get_output_path(input_files[i + 1], INPUT_FOLDER,
                                      OUTPUT_FOLDER, target_height, FALSE)
    /\ printed' = Msg("progress", input_files[i + 1])
    /\ log' = Append(log, [ev |-> "progress", n |-> i + 1,
                           total |-> Len(input_files), file |-> input_files[i + 1]])
    /\ pc' = "c_invoke"
    /\ UNCHANGED <<mode, bundled, inputTree, inRootExists, outDirs, outFiles, out0,
                   ffmpeg_path, input_files, target_height, video_codec, i,
                   answer, prompted, result, exitCode, exc>>

\* loop body up to the encoder call: progress line, get_output_path, os.makedirs
ConvertLoopBegin ==
    /\ pc = "c_loop"
    /\ i < Len(input_files)
    /\ LET input_file == input_files[i + 1]
           path == get_output_path(input_file, INPUT_FOLDER, OUTPUT_FOLDER,
                                   target_height, FALSE)
           made == makedirs(FS, dirname(path), TRUE)
           progress == [ev |-> "progress", n |-> i + 1,
                        total |-> Len(input_files), file |-> input_file]
       IN  /\ output_path' = path
           /\ printed' = Msg("progress", input_file)
           /\ IF made.err = "none"
              THEN /\ outDirs' = made.dirs
                   /\ log' = log \o <<progress,
                                      [ev |-> "makedirs", path |-> dirname(path)]>>
                   /\ pc' = "c_invoke"
                   /\ UNCHANGED <<exitCode, exc>>
              ELSE /\ log' = Append(log, progress)
                   /\ pc' = "done" /\ exitCode' = 1 /\ exc' = made.err
                   /\ UNCHANGED outDirs
    /\ UNCHANGED <<mode, bundled, inputTree, inRootExists, outFiles, out0,
                   ffmpeg_path, input_files, target_height, video_codec, i,
                   answer, prompted, result>>

\* convert_video: subprocess.run starts the encoder
ConvertRun ==
    /\ pc = "c_invoke"
    /\ log' = Append(log,
            [ev |-> "run", kind |-> "convert",
             input |-> input_files[i + 1], output |-> output_path,
             command |-> convert_video(input_files[i + 1], output_path,
                                       target_height, video_codec, AAC,
                                       ffmpeg_path)])
    /\ pc' = "c_running"
    /\ UNCHANGED <<mode, bundled, inputTree, inRootExists, outDirs, outFiles, out0,
                   ffmpeg_path, input_files, target_height, video_codec, i,
                   output_path, answer, prompted, result, printed, exitCode, exc>>

\* convert_video: the encoder ends (its exit status is not looked at); "done" line
ConvertExit ==
    /\ pc = "c_running"
    /\ \E wrote \in BOOLEAN :
         /\ result' = Completed(IF wrote THEN 0 ELSE 1, <<>>)
         /\ outFiles' = IF wrote /\ output_path \notin outDirs
                        THEN outFiles \cup {output_path} ELSE outFiles
         /\ log' = Append(log, [ev |-> "exit", path |-> output_path,
                                wrote |-> wrote /\ output_path \notin outDirs])
    /\ printed' = Msg("convert_done", <<>>)
    /\ i' = i + 1
    /\ pc' = "c_loop"
    /\ UNCHANGED <<mode, bundled, inputTree, inRootExists, outDirs, out0,
                   ffmpeg_path, input_files, target_height, video_codec,
                   output_path, answer, prompted, exitCode, exc>>

\* the batch loop is exhausted: process_convert_resolution and main return
ConvertEnd ==
    /\ pc = "c_loop"
    /\ i = Len(input_files)
    /\ pc' = "done"
    /\ UNCHANGED <<mode, bundled, inputTree, inRootExists, outDirs, outFiles, out0,
                   ffmpeg_path, input_files, target_height, video_codec, i,
                   output_path, answer, prompted, result, printed, exitCode,
                   exc, log>>

(***************************************************************************)
(* process_extract_audio                                                   *)
(***************************************************************************)
\* user_input that looks at the first letter only
user_input_first(line) ==
    IF strip(line) = <<>> THEN <<>> ELSE <<Head(lower(strip(line)))>>

\* input(...).strip().lower()
user_input(line) == lower(strip(line))

\* the confirmation prompt: return unless the answer is "y"
ExtractConfirm ==
    /\ pc = "e_confirm"
    /\ \E line \in ConfirmAnswers :
         /\ answer' = line
         /\ IF user_input(line) # <<"y">>
            THEN pc' = "done" /\ UNCHANGED printed
            ELSE pc' = "e_clear" /\ printed' = Msg("blank", <<>>)
    /\ prompted' = TRUE
    /\ UNCHANGED <<mode, bundled, inputTree, inRootExists, outDirs, outFiles, out0,
                   ffmpeg_path, input_files, target_height, video_codec, i,
                   output_path, result, exitCode, exc, log>>

\* clear_output_folder() and the start of the batch loop
ExtractClear ==
    /\ pc = "e_clear"
    /\ outDirs' = clear_output_folder(FS).dirs
    /\ outFiles' = clear_output_folder(FS).files
    /\ log' = Append(log, [ev |-> "reset"])
    /\ printed' = Msg("start_extract", <<>>)
    /\ i' = 0
    /\ pc' = "e_loop"
    /\ UNCHANGED <<mode, bundled, inputTree, inRootExists, out0, ffmpeg_path,
                   input_files, target_height, video_codec, output_path,
                   answer, prompted, result, exitCode, exc>>

\* loop body up to the encoder call: progress line, get_output_path, os.makedirs
ExtractLoopBegin ==
    /\ pc = "e_loop"
    /\ i < Len(input_files)
    /\ LET input_file == input_files[i + 1]
           path == get_output_path(input_file, INPUT_FOLDER, OUTPUT_FOLDER,
                                   target_height, TRUE)
           made == makedirs(FS, dirname(path), TRUE)
           progress == [ev |-> "progress", n |-> i + 1,
                        total |-> Len(input_files), file |-> input_file]
       IN  /\ output_path' = path
           /\ printed' = Msg("progress", input_file)
           /\ IF made.err = "none"
              THEN /\ outDirs' = made.dirs
                   /\ log' = log \o <<progress,
                                      [ev |-> "makedirs", path |-> dirname(path)]>>
                   /\ pc' = "e_invoke"
                   /\ UNCHANGED <<exitCode, exc>>
              ELSE /\ log' = Append(log, progress)
                   /\ pc' = "done" /\ exitCode' = 1 /\ exc' = made.err
                   /\ UNCHANGED outDirs
    /\ UNCHANGED <<mode, bundled, inputTree, inRootExists, outFiles, out0,
                   ffmpeg_path, input_files, target_height, video_codec, i,
                   answer, prompted, result>>

\* extract_audio: subprocess.run starts the encoder
ExtractRun ==
    /\ pc = "e_invoke"
    /\ log' = Append(log,
            [ev |-> "run", kind |-> "extract",
             input |-> input_files[i + 1], output |-> output_path,
             command |-> extract_audio(input_files[i + 1], output_path, MP3,
                                       BITRATE_192K, ffmpeg_path)])
    /\ pc' = "e_running"
    /\ UNCHANGED <<mode, bundled, inputTree, inRootExists, outDirs, outFiles, out0,
                   ffmpeg_path, input_files, target_height, video_codec, i,
                   output_path, answer, prompted, result, printed, exitCode, exc>>

\* extract_audio: the encoder ends (its exit status is not looked at); "done" line
ExtractExit ==
    /\ pc = "e_running"
    /\ \E wrote \in BOOLEAN :
         /\ result' = Completed(IF wrote THEN 0 ELSE 1, <<>>)
         /\ outFiles' = IF wrote /\ output_path \notin outDirs
                        THEN outFiles \cup {output_path} ELSE outFiles
         /\ log' = Append(log, [ev |-> "exit", path |-> output_path,
                                wrote |-> wrote /\ output_path \notin outDirs])
    /\ printed' = Msg("extract_done", <<>>)
    /\ i' = i + 1
    /\ pc' = "e_loop"
    /\ UNCHANGED <<mode, bundled, inputTree, inRootExists, outDirs, out0,
                   ffmpeg_path, input_files, target_height, video_codec,
                   output_path, answer, prompted, exitCode, exc>>

\* the batch loop is exhausted: process_extract_audio and main return
ExtractEnd ==
    /\ pc = "e_loop"
    /\ i = Len(input_files)
    /\ pc' = "done"
    /\ UNCHANGED <<mode, bundled, inputTree, inRootExists, outDirs, outFiles, out0,
                   ffmpeg_path, input_files, target_height, video_codec, i,
                   output_path, answer, prompted, result, printed, exitCode,
                   exc, log>>

Next ==
    \/ FindFfmpeg
    \/ PrintVersion
    \/ MakeRoots
    \/ Discover
    \/ GetTargetHeight
    \/ ChooseVideoCodec
    \/ ConvertClear
    \/ ConvertLoopBegin
    \/ ConvertRun
    \/ ConvertExit
    \/ ConvertEnd
    \/ ExtractConfirm
    \/ ExtractClear
    \/ ExtractLoopBegin
    \/ ExtractRun
    \/ ExtractExit
    \/ ExtractEnd

Spec == Init /\ [][Next]_vars

(***************************************************************************)
(* Vocabulary of the properties.                                           *)
(***************************************************************************)
Events(kind) == {k \in 1..Len(log) : log[k].ev = kind}
Resets == Events("reset")
Runs == Events("run")
Exits == Events("exit")
MakeDirs == Events("makedirs")
Progress == Events("progress")

\* the k-th element of a set of log positions, in log order
Nth(S, k) == CHOOSE x \in S : Cardinality({y \in S : y < x}) = k - 1

LoopPcs == {"c_loop", "c_invoke", "c_running", "e_loop", "e_invoke", "e_running"}
RunningPcs == {"c_running", "e_running"}

\* the path under which os.walk reports file f of the input tree
InputPath(f) == JoinAll(<<INPUT_FOLDER>> \o f.dir \o <<Name(f)>>)
SourceOf(path) == CHOOSE f \in inputTree : InputPath(f) = path

\* the relative path of f without its extension
RelStem(f) == JoinAll(f.dir \o <<f.stem>>)

\* the file name the specification gives the output of f
ExpectedName(f) ==
    IF mode = "convert"
    THEN f.stem \o <<"_">> \o IntToStr(target_height) \o <<"p">> \o f.ext
    ELSE f.stem \o <<".", "m", "p", "3">>
ExpectedOutput(f) == JoinAll(<<OUTPUT_FOLDER>> \o f.dir \o <<ExpectedName(f)>>)

Derived(path) ==
    get_output_path(path, INPUT_FOLDER, OUTPUT_FOLDER, target_height,
                    mode = "extract")

\* no file of the input tree has a supported extension
NoMatch == \A f \in inputTree : lower(f.ext) \notin SUPPORTED_FORMATS

\* the output area holds what it held before the run (the root itself may
\* have been created)
OutputUntouched ==
    /\ outFiles = out0.files
    /\ outDirs \ {OUTPUT_FOLDER} = out0.dirs \ {OUTPUT_FOLDER}

\* a line that is "y" or "Y" between whitespace
IsYes(line) ==
    \E k \in 1..Len(line) :
        /\ line[k] \in {"y", "Y"}
        /\ \A j \in 1..Len(line) : j # k => line[j] \in Whitespace

\* the text of s before its first newline
UpToNewline(s) ==
    CHOOSE t \in {SubSeq(s, 1, n) : n \in 0..Len(s)} :
        /\ \A k \in 1..Len(t) : t[k] # "\n"
        /\ Len(t) = Len(s) \/ s[Len(t) + 1] = "\n"

(***************************************************************************)
(* C1: the output area is reset at most once in a run; every directory     *)
(* creation of the batch loop, every encoder run and every encoder exit    *)
(* comes after the one reset; and while no reset has happened the files of *)
(* the output area are those it held before the run.                       *)
(***************************************************************************)
C1_ResetOnceBeforeWrites ==
    /\ Cardinality(Resets) <= 1
    /\ \A k \in Runs \cup MakeDirs \cup Exits : \E r \in Resets : r < k
    /\ Runs # {} => Cardinality(Resets) = 1
    /\ Resets = {} => outFiles = out0.files

C1_Witness ==
    /\ pc = "done"
    /\ Cardinality(Runs) >= 2
    /\ Cardinality(Resets) = 1
    /\ \E e \in Exits : log[e].wrote
    /\ out0.files # {}

(***************************************************************************)
(* C2: in a run with an encoder located whose input tree holds no file     *)
(* with a supported extension, there is never a prompt, a reset, a         *)
(* directory creation of the batch loop or an encoder run, the files and   *)
(* subdirectories of the output area stay what they were, and the run      *)
(* ends with the guidance message and exit code 0.                         *)
(***************************************************************************)
C2_NoInputNoEffect ==
    (NoMatch /\ ffmpeg_path # NoPath) =>
        /\ log = <<>>
        /\ ~prompted
        /\ OutputUntouched
        /\ pc \in {"version", "makeroots", "discover", "done"}
        /\ pc = "done" => /\ printed = Msg("no_input_files", INPUT_FOLDER)
                          /\ input_files = <<>>
                          /\ exitCode = 0 /\ exc = "none"

C2_Witness ==
    /\ pc = "done"
    /\ printed.msg = "no_input_files"
    /\ inputTree # {}
    /\ out0.files # {}
    /\ outFiles = out0.files

(***************************************************************************)
(* C3: in extract mode, once the confirmation has been answered, the run   *)
(* goes on to the reset and the loop exactly when the answer is "y" or "Y" *)
(* between whitespace; after any other answer the run is over with exit    *)
(* code 0, no reset, no directory creation of the batch loop, no encoder   *)
(* run, and the output area as it stood when the prompt was shown: its     *)
(* earlier contents plus the root main had made sure of.                   *)
(***************************************************************************)
C3_ConfirmExactY ==
    (mode = "extract" /\ prompted) =>
        /\ IsYes(answer) <=> (pc \in LoopPcs \cup {"e_clear"} \/ Resets # {})
        /\ ~IsYes(answer) =>
              /\ pc = "done" /\ exitCode = 0 /\ exc = "none"
              /\ log = <<>>
              /\ outFiles = out0.files
              /\ outDirs = out0.dirs \cup {OUTPUT_FOLDER}

C3_Witness ==
    /\ mode = "extract"
    /\ prompted
    /\ answer = <<"y","e","s">>
    /\ pc = "done"
    /\ out0.files # {}
    /\ outFiles = out0.files

(***************************************************************************)
(* C4: in convert mode the value that leaves the height prompt is a        *)
(* positive integer: whenever the run is past the prompt, the last answer  *)
(* parses as an integer, target_height is that integer, and it is > 0.     *)
(***************************************************************************)
C4_PositiveHeightDownstream ==
    (mode = "convert" /\ prompted /\ pc # "c_height") =>
        /\ int(answer).ok
        /\ target_height = int(answer).val
        /\ target_height > 0

(***************************************************************************)
(* C5: a run that ends without an encoder path is one where the bundled    *)
(* file is absent and the system lookup failed (by raising or by a         *)
(* non-zero exit code); it then has printed the encoder-not-found error,   *)
(* exits with code 1 by sys.exit, and has created no root, discovered      *)
(* nothing, prompted for nothing and run nothing.  When the bundled file   *)
(* exists it is chosen and the system lookup is not run.                   *)
(***************************************************************************)
C5_NoEncoderExitsWithError ==
    /\ (pc # "find_ffmpeg" /\ bundled) =>
          /\ ffmpeg_path = BIN_FFMPEG_PATH
          /\ pc = "version" => ~result.called
    /\ (pc # "find_ffmpeg" /\ ~bundled
        /\ (result.raised \/ result.returncode # 0) /\ ffmpeg_path = NoPath) =>
          /\ pc = "done"
          /\ exc = "none"
          /\ printed = Msg("error_ffmpeg_not_found", <<>>)
          /\ exitCode = 1
          /\ inRootExists = (inputTree # {})
          /\ outDirs = out0.dirs /\ outFiles = out0.files
          /\ input_files = <<>> /\ ~prompted /\ log = <<>>

(***************************************************************************)
(* C6 as stated: the version line is the first line of the output when the *)
(* query succeeds with output, and the sentinel whenever it raises, ends   *)
(* with a non-zero code or produces no output.                             *)
(***************************************************************************)
C6_SentinelOnNoOutput ==
    pc = "makeroots" =>
        /\ exc = "none"
        /\ printed.msg = "version"
        /\ printed.text =
              IF ~result.raised /\ result.returncode = 0 /\ result.stdout # <<>>
              THEN UpToNewline(result.stdout)
              ELSE UnknownVersion

(***************************************************************************)
(* C6 amended: get_ffmpeg_version never raises; the version line is the    *)
(* text of the output before its first newline whenever the query ends     *)
(* with exit code 0 (the empty string for an empty output), and the        *)
(* sentinel when the query raises or ends with a non-zero code.            *)
(***************************************************************************)
C6_FirstLineOrSentinel ==
    pc = "makeroots" =>
        /\ exc = "none"
        /\ printed.msg = "version"
        /\ printed.text =
              IF ~result.raised /\ result.returncode = 0
              THEN UpToNewline(result.stdout)
              ELSE UnknownVersion

C6_Witness ==
    /\ pc = "makeroots"
    /\ result = Completed(0, <<>>)
    /\ printed = Msg("version", <<>>)

(***************************************************************************)
(* The order of the batch loop: at most one encoder run has not ended; the *)
(* k-th run is on the k-th discovered file and writes to its derived path; *)
(* the k-th progress line is (k/N) for that file and precedes the k-th     *)
(* run; and each run has ended before the next progress line.              *)
(***************************************************************************)
LoopInOrder ==
    /\ Cardinality(Runs) - Cardinality(Exits) \in {0, 1}
    /\ Cardinality(Runs) <= Cardinality(Progress)
    /\ Cardinality(Progress) <= Len(input_files)
    /\ \A k \in 1..Cardinality(Progress) :
          /\ log[Nth(Progress, k)].n = k
          /\ log[Nth(Progress, k)].total = Len(input_files)
          /\ log[Nth(Progress, k)].file = input_files[k]
          /\ k > 1 => /\ Cardinality(Exits) >= k - 1
                      /\ Nth(Exits, k - 1) < Nth(Progress, k)
    /\ \A k \in 1..Cardinality(Runs) :
          /\ log[Nth(Runs, k)].input = input_files[k]
          /\ log[Nth(Runs, k)].output = Derived(input_files[k])
          /\ log[Nth(Runs, k)].command[4] = input_files[k]
          /\ log[Nth(Runs, k)].command[Len(log[Nth(Runs, k)].command)]
                = Derived(input_files[k])
          /\ Nth(Progress, k) < Nth(Runs, k)

(***************************************************************************)
(* C7: a run that passed its prompt (it reset the output area) over N      *)
(* discovered files issues its encoder runs one at a time, in discovery    *)
(* order, with progress lines (1/N) .. (N/N), and when it is over it has   *)
(* issued exactly N of them.                                               *)
(***************************************************************************)
C7_OneInvocationPerFile ==
    /\ LoopInOrder
    /\ (pc = "done" /\ Resets # {}) => Cardinality(Runs) = Len(input_files)

(***************************************************************************)
(* What holds of C7 on the code: the order always, and the count in every  *)
(* run that no uncaught exception ended.                                   *)
(***************************************************************************)
LoopCompleteUnlessAborted ==
    /\ LoopInOrder
    /\ (pc = "done" /\ Resets # {} /\ exc = "none") =>
          Cardinality(Runs) = Len(input_files)

(***************************************************************************)
(* C8: when the batch loop is entered, the path get_output_path derives    *)
(* for every discovered file is the output root, the directories of the    *)
(* file below the input root, and the file name stem_<height>p<ext> in     *)
(* convert mode or stem.mp3 in extract mode; and in the loop the output    *)
(* path of the file in hand is that path.                                  *)
(***************************************************************************)
C8_OutputPathShape ==
    /\ (pc \in {"c_loop", "e_loop"} /\ i = 0) =>
          \A k \in 1..Len(input_files) :
              Derived(input_files[k]) = ExpectedOutput(SourceOf(input_files[k]))
    /\ pc \in {"c_invoke", "c_running", "e_invoke", "e_running"} =>
          output_path = ExpectedOutput(SourceOf(input_files[i + 1]))

C8_Witness ==
    /\ pc = "c_running"
    /\ Len(SourceOf(input_files[i + 1]).dir) = 2
    /\ \E k \in 1..Len(input_files) : SourceOf(input_files[k]).dir = <<>>
    /\ \E k \in 1..Len(input_files) :
          SourceOf(input_files[k]).ext = <<".","M","K","V">>

(***************************************************************************)
(* C9: when the batch loop is entered, any two discovered files whose      *)
(* relative paths without extension differ have different derived output   *)
(* paths; and an encoder run never writes to the output path of an earlier *)
(* run on such a file.                                                     *)
(***************************************************************************)
C9_DistinctStemsDistinctOutputs ==
    /\ (pc \in {"c_loop", "e_loop"} /\ i = 0) =>
          \A a, b \in 1..Len(input_files) :
              (a < b /\ RelStem(SourceOf(input_files[a]))
                          # RelStem(SourceOf(input_files[b])))
                 => Derived(input_files[a]) # Derived(input_files[b])
    /\ pc \in RunningPcs =>
          \A a \in Runs :
              (a < Max(Runs) /\ RelStem(SourceOf(log[a].input))
                                  # RelStem(SourceOf(log[Max(Runs)].input)))
                 => log[a].output # log[Max(Runs)].output

C9_Witness ==
    /\ pc = "done"
    /\ \E a, b \in Runs :
          /\ a < b
          /\ SourceOf(log[a].input).stem = SourceOf(log[b].input).stem
          /\ SourceOf(log[a].input).dir # SourceOf(log[b].input).dir
          /\ log[a].output # log[b].output

(***************************************************************************)
(* C10: while an encoder run is under way, the directory of its output     *)
(* path exists and is the output root or lies below it; every encoder run  *)
(* comes after a directory creation for the directory of its output, which *)
(* comes after the reset; and every file an encoder run has written is     *)
(* still there.                                                            *)
(***************************************************************************)
C10_ParentExistsAtInvocation ==
    /\ pc \in RunningPcs =>
          /\ dirname(output_path) \in outDirs
          /\ IsUnder(dirname(output_path), OUTPUT_FOLDER)
    /\ \A r \in Runs : \E m \in MakeDirs :
          /\ m < r
          /\ log[m].path = dirname(log[r].output)
          /\ \E c \in Resets : c < m
    /\ \A e \in Exits : log[e].wrote => log[e].path \in outFiles

C10_Witness ==
    /\ pc \in RunningPcs
    /\ i = 1
    /\ dirname(output_path) = join(OUTPUT_FOLDER, <<"s">>)
    /\ join(OUTPUT_FOLDER, <<"s">>) \in out0.dirs
    /\ \E e \in Exits : log[e].wrote /\ dirname(log[e].path) = dirname(output_path)

====
